---- MODULE Spec2Model ----
(***************************************************************************)
(* Model of djangoat/templatetags/djangoat.py: the pager tag, the          *)
(* partition filter and the data tag / dataf filter.                       *)
(*                                                                         *)
(* Three specifications share the module:                                  *)
(*   Spec           one call of pager(context, queryset, items_per_page,   *)
(*                  plus_or_minus), stepped through its statements;        *)
(*   SpecPartition  one call of partition(items, groups);                  *)
(*   SpecData       one call each of dataf(key, arg) and                   *)
(*                  data(context, key, *args) on the same inputs.          *)
(***************************************************************************)
EXTENDS Integers, Sequences, FiniteSets, TLC

VARIABLES
    \* ---- pager ----
    pc,              \* position in pager
    request,         \* context['request'] and its GET[q] entry
    queryset,        \* the data source, a sequence of item ids
    items_per_page,  \* argument
    plus_or_minus,   \* argument
    p, t, pt, ps, pe, rl, ru, i,   \* pager's locals
    w,               \* the widget's link list
    context,         \* the keys pager writes into the template context
    err,             \* exception that left pager, "" when none
    \* ---- partition ----
    ppc,             \* position in partition
    items,           \* argument
    groups_arg,      \* the caller's value of groups
    groups,          \* the parameter, counted down by the loop
    r, s, ll,        \* partition's locals
    \* ---- data / dataf ----
    DJANGOAT_DATA,   \* the registry: key -> stored value or callable
    key, arg,        \* the template's key and its one optional argument
    dataf_ret,       \* what dataf(key, arg) returned
    data_ret,        \* what data(context, key, arg) returned
    dcontext         \* the entries data injected into its context

pagerVars == <<pc, request, queryset, items_per_page, plus_or_minus,
               p, t, pt, ps, pe, rl, ru, i, w, context, err>>
partitionVars == <<ppc, items, groups_arg, groups, r, s, ll>>
dataVars == <<DJANGOAT_DATA, key, arg, dataf_ret, data_ret, dcontext>>
vars == <<pagerVars, partitionVars, dataVars>>

----------------------------------------------------------------------------
(* Bounds *)

MaxItems == 6        \* queryset.count() ranges over 0..MaxItems and 100
MaxPageSize == 3     \* items_per_page ranges over -1..MaxPageSize and 10
MaxRadius == 3       \* plus_or_minus ranges over 0..MaxRadius
MaxStrLen == 2       \* length of the raw ?page= string
MaxLen == 10         \* partition: length of items
MaxGroups == 4       \* partition: groups ranges over 0..MaxGroups

----------------------------------------------------------------------------
(* Helpers shared by the operations *)

Min(a, b) == IF a < b THEN a ELSE b
Max(a, b) == IF a > b THEN a ELSE b

\* floor instead of ceil
Ceil_Floor(a, b) == IF b > 0 THEN a \div b ELSE (-a) \div (-b)

\* math.ceil(a / b) for integers a, b with b # 0
Ceil(a, b) == IF b > 0 THEN -((-a) \div b) ELSE -(a \div (-b))

\* PySlice with the start index taken as 1-based
PySlice_OffByOne(seq, a, b) ==
    LET n  == Len(seq)
        lo == IF a < 0 THEN Max(n + a, 0) ELSE Min(a, n)
        hi == IF b < 0 THEN Max(n + b, 0) ELSE Min(b, n)
    IN  IF lo >= hi THEN <<>> ELSE SubSeq(seq, lo + 2, hi)

\* Python's seq[a:b] on a sequence; negative indexes count from the end
PySlice(seq, a, b) ==
    LET n  == Len(seq)
        lo == IF a < 0 THEN Max(n + a, 0) ELSE Min(a, n)
        hi == IF b < 0 THEN Max(n + b, 0) ELSE Min(b, n)
    IN  IF lo >= hi THEN <<>> ELSE SubSeq(seq, lo + 1, hi)

----------------------------------------------------------------------------
(* int(context['request'].GET.get(q, 1)) *)

Chars == {"-", "0", "1", "2", "5", "x"}
Digits == {"0", "1", "2", "5"}

DigitVal(c) == CASE c = "0" -> 0 [] c = "1" -> 1 [] c = "2" -> 2 [] c = "5" -> 5

RECURSIVE DecVal(_)
DecVal(str) == IF Len(str) = 0 THEN 0
               ELSE 10 * DecVal(SubSeq(str, 1, Len(str) - 1)) + DigitVal(str[Len(str)])

\* int(str): an optional sign, then one or more digits; anything else raises
ParseInt(str) ==
    LET neg  == Len(str) > 0 /\ str[1] = "-"
        body == IF neg THEN Tail(str) ELSE str
        ok   == Len(body) > 0 /\ \A k \in 1..Len(body) : body[k] \in Digits
    IN  IF ok THEN [ok |-> TRUE, val |-> IF neg THEN -DecVal(body) ELSE DecVal(body)]
        ELSE [ok |-> FALSE, val |-> 0]

RawStrings == UNION {[1..n -> Chars] : n \in 0..MaxStrLen}

\* present: 'request' is in the context; has: the query string has the key q
Requests ==
    {[present |-> FALSE, has |-> FALSE, raw |-> <<>>],
     [present |-> TRUE, has |-> FALSE, raw |-> <<>>]}
    \cup {[present |-> TRUE, has |-> TRUE, raw |-> str] : str \in RawStrings}

\* PageOf without the "if p < 1" clamp of lines 372-373
PageOf_NoClamp(req) ==
    LET v == IF ~req.present THEN [ok |-> FALSE, val |-> 0]
             ELSE IF ~req.has THEN [ok |-> TRUE, val |-> 1]
             ELSE ParseInt(req.raw)
    IN  IF v.ok THEN v.val ELSE 1

\* lines 368-373: the page number pager works with
PageOf(req) ==
    LET v == IF ~req.present THEN [ok |-> FALSE, val |-> 0]
             ELSE IF ~req.has THEN [ok |-> TRUE, val |-> 1]
             ELSE ParseInt(req.raw)
        n == IF v.ok THEN v.val ELSE 1
    IN  IF n < 1 THEN 1 ELSE n

----------------------------------------------------------------------------
(* Link entries of the widget *)

PrevLink(n) == [kind |-> "prev", number |-> n, current |-> FALSE]
NextLink(n) == [kind |-> "next", number |-> n, current |-> FALSE]
Ellipsis == [kind |-> "ellipsis", number |-> 0, current |-> FALSE]
PageLink(n) == [kind |-> "page", number |-> n, current |-> FALSE]
ActiveLink(n) == [kind |-> "page", number |-> n, current |-> TRUE]

\* WindowEntry that never marks the current page
WindowEntry_NoActive(n, page) == PageLink(n)

\* line 392: the entry the window loop appends for i
WindowEntry(n, page) == IF n = page THEN ActiveLink(page) ELSE PageLink(n)

\* line 391: range(RangeStart, RangeStop)
RangeStart(lo) == IF lo < 0 THEN 1 ELSE lo
RangeStop(hi, total) == (IF hi > total THEN total ELSE hi) + 1

\* lines 383-384
PrevPart(page) == IF page > 1 THEN <<PrevLink(page - 1)>> ELSE <<>>

\* FirstPart with the ellipsis test off by one
FirstPart_EarlyEllipsis(lo) ==
    IF lo > 1 THEN (IF lo >= 2 THEN <<PageLink(1), Ellipsis>> ELSE <<PageLink(1)>>)
    ELSE <<>>

\* lines 387-390
FirstPart(lo) ==
    IF lo > 1 THEN (IF lo > 2 THEN <<PageLink(1), Ellipsis>> ELSE <<PageLink(1)>>)
    ELSE <<>>

\* lines 393-396
LastPart(hi, total) ==
    (IF hi < total - 1 THEN <<Ellipsis>> ELSE <<>>)
    \o (IF hi < total THEN <<PageLink(total)>> ELSE <<>>)

\* NextPart clamped to the last page
NextPart_Clamped(page, total) ==
    IF total # 0 /\ page < total THEN <<NextLink(page + 1)>> ELSE <<>>

\* lines 397-398
NextPart(page, total) ==
    IF total # 0 /\ page # total THEN <<NextLink(page + 1)>> ELSE <<>>

NoContext ==
    [set |-> FALSE, pager_start |-> 0, pager_end |-> 0, pager_queryset |-> <<>>,
     pager_total |-> 0, pager |-> [pages |-> <<>>, showing |-> <<0, 0, 0>>]]

----------------------------------------------------------------------------
(* pager *)

PagerIdle ==
    /\ pc = "idle" /\ request = [present |-> FALSE, has |-> FALSE, raw |-> <<>>]
    /\ queryset = <<>> /\ items_per_page = 1 /\ plus_or_minus = 0
    /\ p = 0 /\ t = 0 /\ pt = 0 /\ ps = 0 /\ pe = 0 /\ rl = 0 /\ ru = 0 /\ i = 0
    /\ w = <<>> /\ context = NoContext /\ err = ""

PartitionIdle ==
    /\ ppc = "idle" /\ items = <<>> /\ groups_arg = 0 /\ groups = 0
    /\ r = <<>> /\ s = 0 /\ ll = 0

NoResult == [kind |-> "unset", of |-> "", args |-> <<>>]

DataIdle ==
    /\ DJANGOAT_DATA = <<>> /\ key = <<>> /\ arg = "" /\ dataf_ret = NoResult
    /\ data_ret = NoResult /\ dcontext = {}

PagerInit ==
    /\ pc = "parse"
    /\ request \in Requests
    /\ \E n \in (0..MaxItems) \cup {100} : queryset = [k \in 1..n |-> k]
    /\ items_per_page \in (-1..MaxPageSize) \cup {10}
    /\ plus_or_minus \in 0..MaxRadius
    /\ p = 0 /\ t = 0 /\ pt = 0 /\ ps = 0 /\ pe = 0 /\ rl = 0 /\ ru = 0 /\ i = 0
    /\ w = <<>> /\ context = NoContext /\ err = ""

Init == PagerInit /\ PartitionIdle /\ DataIdle

\* lines 367-373
ParsePage ==
    /\ pc = "parse"
    /\ p' = PageOf(request)
    /\ pc' = "count"
    /\ UNCHANGED <<partitionVars, dataVars, request, queryset, items_per_page, plus_or_minus,
                   t, pt, ps, pe, rl, ru, i, w, context, err>>

\* lines 374-379
Count ==
    /\ pc = "count"
    /\ items_per_page # 0
    /\ t' = Len(queryset)
    /\ pt' = Ceil(Len(queryset), items_per_page)
    /\ ps' = (p - 1) * items_per_page
    /\ pe' = IF p * items_per_page > Len(queryset) THEN Len(queryset)
             ELSE p * items_per_page
    /\ pc' = "head"
    /\ UNCHANGED <<partitionVars, dataVars, request, queryset, items_per_page, plus_or_minus,
                   p, rl, ru, i, w, context, err>>

\* line 375 with items_per_page = 0: t / 0 raises ZeroDivisionError
CountRaises ==
    /\ pc = "count"
    /\ items_per_page = 0
    /\ t' = Len(queryset)
    /\ err' = "ZeroDivisionError"
    /\ pc' = "raised"
    /\ UNCHANGED <<partitionVars, dataVars, request, queryset, items_per_page, plus_or_minus,
                   p, pt, ps, pe, rl, ru, i, w, context>>

\* lines 382-390, and the start of the range of line 391
BuildHead ==
    /\ pc = "head"
    /\ rl' = p - plus_or_minus
    /\ ru' = p + plus_or_minus
    /\ w' = PrevPart(p) \o FirstPart(p - plus_or_minus)
    /\ i' = RangeStart(p - plus_or_minus)
    /\ pc' = "window"
    /\ UNCHANGED <<partitionVars, dataVars, request, queryset, items_per_page, plus_or_minus,
                   p, t, pt, ps, pe, context, err>>

\* lines 391-392: one iteration of the loop
WindowStep ==
    /\ pc = "window"
    /\ i < RangeStop(ru, pt)
    /\ w' = Append(w, WindowEntry(i, p))
    /\ i' = i + 1
    /\ UNCHANGED <<partitionVars, dataVars, pc, request, queryset, items_per_page, plus_or_minus,
                   p, t, pt, ps, pe, rl, ru, context, err>>

\* lines 393-398, once the range is exhausted
BuildTail ==
    /\ pc = "window"
    /\ i >= RangeStop(ru, pt)
    /\ w' = w \o LastPart(ru, pt) \o NextPart(p, pt)
    /\ pc' = "update"
    /\ UNCHANGED <<partitionVars, dataVars, request, queryset, items_per_page, plus_or_minus,
                   p, t, pt, ps, pe, rl, ru, i, context, err>>

\* lines 399-409
UpdateContext ==
    /\ pc = "update"
    /\ context' = [set |-> TRUE,
                   pager_start |-> ps + 1,
                   pager_end |-> pe,
                   pager_queryset |-> PySlice(queryset, ps, pe),
                   pager_total |-> t,
                   pager |-> [pages |-> w, showing |-> <<ps, pe, t>>]]
    /\ pc' = "done"
    /\ UNCHANGED <<partitionVars, dataVars, request, queryset, items_per_page, plus_or_minus,
                   p, t, pt, ps, pe, rl, ru, i, w, err>>

\* line 402 on a data source that rejects negative indexes (a Django
\* QuerySet does): the slice raises while the dict is built, before update
SliceRaises ==
    /\ pc = "update"
    /\ (ps < 0 \/ pe < 0)
    /\ err' = "ValueError"
    /\ pc' = "raised"
    /\ UNCHANGED <<partitionVars, dataVars, request, queryset, items_per_page, plus_or_minus,
                   p, t, pt, ps, pe, rl, ru, i, w, context>>

Next ==
    \/ ParsePage
    \/ Count
    \/ CountRaises
    \/ BuildHead
    \/ WindowStep
    \/ BuildTail
    \/ UpdateContext
    \/ SliceRaises

Spec == Init /\ [][Next]_vars

----------------------------------------------------------------------------
(* partition *)

PartitionInit ==
    /\ ppc = "start"
    /\ \E n \in 0..MaxLen : items = [k \in 1..n |-> k]
    /\ groups_arg \in 0..MaxGroups
    /\ groups = groups_arg
    /\ r = <<>> /\ s = 0 /\ ll = 0

InitPartition == PagerIdle /\ PartitionInit /\ DataIdle

\* lines 95-98
PartitionStart ==
    /\ ppc = "start"
    /\ r' = <<>>
    /\ ll' = Len(items)
    /\ s' = 0
    /\ ppc' = "loop"
    /\ UNCHANGED <<pagerVars, dataVars, items, groups_arg, groups>>

\* lines 99-103: one iteration of the while loop
PartitionLoop ==
    /\ ppc = "loop"
    /\ groups > 1
    /\ LET e == s + Ceil(ll - s, groups)
       IN  /\ r' = Append(r, PySlice(items, s, e))
           /\ s' = e
    /\ groups' = groups - 1
    /\ UNCHANGED <<pagerVars, dataVars, ppc, items, groups_arg, ll>>

\* lines 104-105
PartitionReturn ==
    /\ ppc = "loop"
    /\ groups <= 1
    /\ r' = Append(r, PySlice(items, s, Len(items)))
    /\ ppc' = "done"
    /\ UNCHANGED <<pagerVars, dataVars, items, groups_arg, groups, s, ll>>

NextPartition ==
    \/ PartitionStart
    \/ PartitionLoop
    \/ PartitionReturn

SpecPartition == InitPartition /\ [][NextPartition]_vars

----------------------------------------------------------------------------
(* data and dataf *)

DataKeys == {<<"a">>, <<"b">>}

\* what DJANGOAT_DATA[key] can hold
Entries == {[callable |-> TRUE, id |-> "fn"], [callable |-> FALSE, id |-> "val"]}

\* template values, by their Python literal
ArgValues == {"None", "False", "0", "1", "''", "'a'", "[]", "[1]"}
Absent == "<absent>"

\* Python truth value
Truthy(v) == v \in {"1", "'a'", "[1]"}

StoredValue(d) == [kind |-> "value", of |-> d.id, args |-> <<>>]
Call(d, args) == [kind |-> "call", of |-> d.id, args |-> args]
KeyError == [kind |-> "KeyError", of |-> "", args |-> <<>>]
EmptyString == [kind |-> "str", of |-> "", args |-> <<>>]

\* lines 29-30, a the value of the parameter arg
DatafResult(D, k, a) ==
    IF k \notin DOMAIN D THEN KeyError
    ELSE IF D[k].callable THEN (IF Truthy(a) THEN Call(D[k], <<a>>) ELSE Call(D[k], <<>>))
    ELSE StoredValue(D[k])

\* lines 298-303: the value v of key k (already stripped) for the tuple args
DataValue(D, k, args) ==
    IF k \notin DOMAIN D THEN KeyError
    ELSE IF D[k].callable THEN Call(D[k], args)
    ELSE StoredValue(D[k])

DataInit ==
    /\ DJANGOAT_DATA \in [DataKeys -> Entries]
    /\ key \in DataKeys \cup {k \o <<">">> : k \in DataKeys} \cup {<<"z">>}
    /\ arg \in ArgValues \cup {Absent}
    /\ dataf_ret = NoResult /\ data_ret = NoResult /\ dcontext = {}

InitData == PagerIdle /\ PartitionIdle /\ DataInit

\* dataf(key) or dataf(key, arg): lines 16, 29-30
Dataf ==
    /\ dataf_ret = NoResult
    /\ dataf_ret' = DatafResult(DJANGOAT_DATA, key, IF arg = Absent THEN "None" ELSE arg)
    /\ UNCHANGED <<pagerVars, partitionVars, DJANGOAT_DATA, key, arg, data_ret, dcontext>>

\* data(context, key) or data(context, key, arg): lines 298-307
Data ==
    /\ data_ret = NoResult
    /\ LET inject == key[Len(key)] = ">"
           k      == IF inject THEN SubSeq(key, 1, Len(key) - 1) ELSE key
           v      == DataValue(DJANGOAT_DATA, k, IF arg = Absent THEN <<>> ELSE <<arg>>)
       IN  IF v = KeyError
           THEN data_ret' = KeyError /\ dcontext' = dcontext
           ELSE IF inject
           THEN /\ dcontext' = {e \in dcontext : e[1] # k} \cup {<<k, v>>}
                /\ data_ret' = EmptyString
           ELSE /\ data_ret' = v
                /\ dcontext' = dcontext
    /\ UNCHANGED <<pagerVars, partitionVars, DJANGOAT_DATA, key, arg, dataf_ret>>

NextData ==
    \/ Dataf
    \/ Data

SpecData == InitData /\ [][NextData]_vars

----------------------------------------------------------------------------
(* Properties of pager, checked under Spec *)

\* The entries the widget is expected to hold before and after the window
ExpectedHead ==
    (IF p > 1 THEN <<PrevLink(p - 1)>> ELSE <<>>)
    \o (IF p - plus_or_minus > 1 THEN <<PageLink(1)>> ELSE <<>>)
    \o (IF p - plus_or_minus > 2 THEN <<Ellipsis>> ELSE <<>>)

ExpectedTail ==
    (IF p + plus_or_minus < pt - 1 THEN <<Ellipsis>> ELSE <<>>)
    \o (IF p + plus_or_minus < pt THEN <<PageLink(pt)>> ELSE <<>>)
    \o (IF pt # 0 /\ p # pt THEN <<NextLink(p + 1)>> ELSE <<>>)

\* What lies between them
WindowOf(links) == SubSeq(links, Len(ExpectedHead) + 1, Len(links) - Len(ExpectedTail))

\* C1: with no items, a positive page size, any radius and any current page,
\* pager computes 0 total pages and an empty link sequence.
C1_EmptyLinksWhenNoItems ==
    (pc = "done" /\ Len(queryset) = 0 /\ items_per_page >= 1)
        => (pt = 0 /\ context.pager.pages = <<>>)

\* C2: the links of the window loop are exactly the pages
\* max(1, p - radius) .. min(totalPages, p + radius) in ascending order, and
\* no page link has a number below 1.
C2_WindowIsClampedRange ==
    (pc = "done" /\ items_per_page >= 1) =>
        LET lo  == Max(1, p - plus_or_minus)
            hi  == Min(pt, p + plus_or_minus)
            win == WindowOf(w)
        IN  /\ Len(win) = Max(0, hi - lo + 1)
            /\ \A k \in 1..Len(win) : win[k].kind = "page" /\ win[k].number = lo + k - 1
            /\ \A k \in 1..Len(w) : w[k].kind = "page" => w[k].number >= 1

\* C3 as stated: with at least one item the link sequence always holds an
\* entry marked current for the current page, also when the current page is
\* past the last page, and no other number is marked current.
C3_CurrentAlwaysFlagged ==
    (pc = "done" /\ Len(queryset) >= 1 /\ items_per_page >= 1) =>
        /\ \E k \in 1..Len(w) : w[k].current /\ w[k].number = p
        /\ \A k \in 1..Len(w) : w[k].current => (w[k].kind = "page" /\ w[k].number = p)

\* C3 amended: when 1 <= currentPage <= totalPages exactly one entry is marked
\* current and its number is currentPage; when currentPage > totalPages no
\* entry is marked current; no other number is ever marked current.
C3_CurrentFlaggedInRange ==
    (pc = "done" /\ items_per_page >= 1) =>
        LET cur == {k \in 1..Len(w) : w[k].current}
        IN  /\ (1 <= p /\ p <= pt) => Cardinality(cur) = 1
            /\ p > pt => cur = {}
            /\ \A k \in cur : w[k].kind = "page" /\ w[k].number = p

C3_Witness ==
    /\ pc = "done" /\ items_per_page >= 1 /\ 1 < p /\ p < pt
    /\ \E k \in 1..Len(w) : w[k] = ActiveLink(p)

\* C4: a prev link to p - 1 is present, as the first entry, iff p > 1; a next
\* link to p + 1 is present, as the last entry, iff totalPages # 0 and
\* p # totalPages, so it is emitted past the last page as well.
C4_PrevNextLinks ==
    pc = "done" =>
        /\ (p > 1) <=> (\E k \in 1..Len(w) : w[k].kind = "prev")
        /\ \A k \in 1..Len(w) : w[k].kind = "prev" => (k = 1 /\ w[k].number = p - 1)
        /\ (pt # 0 /\ p # pt) <=> (\E k \in 1..Len(w) : w[k].kind = "next")
        /\ \A k \in 1..Len(w) : w[k].kind = "next" => (k = Len(w) /\ w[k].number = p + 1)
        /\ (p > pt /\ pt >= 1) => w[Len(w)] = NextLink(p + 1)

C4_Witness ==
    /\ pc = "done" /\ pt >= 1 /\ p > pt
    /\ w[1] = PrevLink(p - 1) /\ w[Len(w)] = NextLink(p + 1)

\* C5: totalPages = ceil(totalItems / pageSize), pager_start =
\* (p - 1) * pageSize + 1, pager_end = min(p * pageSize, totalItems), the slice
\* is [(p - 1) * pageSize, pager_end); on a page of 1..totalPages
\* 1 <= start <= end <= totalItems and the slice has end - start + 1 <=
\* pageSize items; from (p - 1) * pageSize >= totalItems on the slice is empty
\* and nothing is raised.
C5_SliceBounds ==
    items_per_page >= 1 =>
        /\ pc # "raised" /\ err = ""
        /\ pc = "done" =>
            LET n     == Len(queryset)
                start == (p - 1) * items_per_page
                slice == context.pager_queryset
            IN  /\ pt * items_per_page >= n /\ (pt - 1) * items_per_page < n
                /\ context.pager_start = start + 1
                /\ context.pager_end = Min(p * items_per_page, n)
                /\ Len(slice) = Max(0, context.pager_end - start)
                /\ \A k \in 1..Len(slice) : slice[k] = queryset[start + k]
                /\ (1 <= p /\ p <= pt) =>
                      /\ 1 <= context.pager_start
                      /\ context.pager_start <= context.pager_end
                      /\ context.pager_end <= n
                      /\ Len(slice) = context.pager_end - context.pager_start + 1
                      /\ Len(slice) <= items_per_page
                /\ start >= n => slice = <<>>

C5_Witness ==
    /\ pc = "done" /\ items_per_page >= 2 /\ p >= 2 /\ p = pt
    /\ Len(context.pager_queryset) >= 1
    /\ Len(context.pager_queryset) < items_per_page

\* C6: page 1 is linked before the window iff p - radius > 1, followed by an
\* ellipsis iff p - radius > 2; after the window an ellipsis iff
\* p + radius < totalPages - 1 and the last page iff p + radius < totalPages;
\* the order is prev, first page, ellipsis, window, ellipsis, last page, next.
C6_LinkOrder ==
    pc = "done" =>
        LET win == WindowOf(w)
        IN  /\ Len(w) >= Len(ExpectedHead) + Len(ExpectedTail)
            /\ SubSeq(w, 1, Len(ExpectedHead)) = ExpectedHead
            /\ SubSeq(w, Len(w) - Len(ExpectedTail) + 1, Len(w)) = ExpectedTail
            /\ \A k \in 1..Len(win) :
                  /\ win[k].kind = "page"
                  /\ k > 1 => win[k].number = win[k - 1].number + 1
            /\ (Len(queryset) = 100 /\ items_per_page = 10 /\ p = 5 /\ plus_or_minus = 2)
                  => w = <<PrevLink(4), PageLink(1), Ellipsis, PageLink(3), PageLink(4),
                           ActiveLink(5), PageLink(6), PageLink(7), Ellipsis,
                           PageLink(10), NextLink(6)>>

C6_Witness ==
    /\ pc = "done" /\ Len(queryset) = 100 /\ items_per_page = 10 /\ p = 5
    /\ plus_or_minus = 2 /\ Len(w) = 11

\* The raw page value is absent, or is not the decimal text of a positive integer
BadPageParam(req) ==
    \/ ~req.present
    \/ ~req.has
    \/ Len(req.raw) = 0
    \/ \E k \in 1..Len(req.raw) : req.raw[k] \notin {"0", "1", "2", "5"}
    \/ \A k \in 1..Len(req.raw) : req.raw[k] = "0"

\* C7: a page value that is absent, non-numeric, zero or negative, or a missing
\* request, never makes pager fail; it computes with page 1: start 1, end
\* min(pageSize, totalItems), the first items as slice, and the links of page
\* 1: no prev link, page 1 as the current link, the window, then the ellipsis,
\* last page and next link that 1 + radius calls for.
C7_BadPageIsPageOne ==
    BadPageParam(request) =>
        /\ pc # "parse" => p = 1
        /\ items_per_page >= 1 => pc # "raised"
        /\ (pc = "done" /\ items_per_page >= 1) =>
            LET n == Min(items_per_page, Len(queryset))
            IN  /\ context.pager_start = 1
                /\ context.pager_end = n
                /\ context.pager_queryset = SubSeq(queryset, 1, n)
                /\ \A k \in 1..Len(context.pager.pages) :
                      /\ context.pager.pages[k].kind # "prev"
                      /\ context.pager.pages[k].current => context.pager.pages[k].number = 1
                /\ Len(queryset) >= 1 =>
                      \E k \in 1..Len(context.pager.pages) :
                          context.pager.pages[k] = ActiveLink(1)
                /\ LET pages == context.pager.pages
                       hi    == 1 + plus_or_minus
                       tail  == (IF hi < pt - 1 THEN <<Ellipsis>> ELSE <<>>)
                                \o (IF hi < pt THEN <<PageLink(pt)>> ELSE <<>>)
                                \o (IF pt > 1 THEN <<NextLink(2)>> ELSE <<>>)
                   IN  /\ Len(pages) >= Len(tail)
                       /\ SubSeq(pages, Len(pages) - Len(tail) + 1, Len(pages)) = tail
                       /\ \A k \in 1..(Len(pages) - Len(tail)) : pages[k].kind = "page"

C7_Witness ==
    /\ pc = "done" /\ request.present /\ request.has /\ request.raw = <<"-", "5">>
    /\ p = 1 /\ context.pager_start = 1 /\ Len(context.pager_queryset) >= 2

\* C8: with pageSize <= 0 pager raises before it computes any link or slice
\* and writes nothing into the context.
C8_FailsFastOnBadPageSize ==
    items_per_page <= 0 =>
        /\ pc \in {"parse", "count", "raised"}
        /\ w = <<>>
        /\ context = NoContext
        /\ pc = "raised" => err = "ZeroDivisionError"

----------------------------------------------------------------------------
(* Properties of partition, checked under SpecPartition *)

RECURSIVE Flatten(_)
Flatten(lists) == IF Len(lists) = 0 THEN <<>> ELSE Head(lists) \o Flatten(Tail(lists))

\* C9: for n items and g >= 1 groups partition returns g sublists whose
\* concatenation is the input in order; sizes are non-increasing and differ by
\* at most 1: the first n mod g hold ceil(n/g) items, the others floor(n/g);
\* 10 items in 3 groups give sizes 4, 3, 3.
C9_FrontWeighted ==
    (ppc = "done" /\ groups_arg >= 1) =>
        LET n == Len(items)
            g == groups_arg
        IN  /\ Len(r) = g
            /\ Flatten(r) = items
            /\ \A k \in 1..(g - 1) : Len(r[k]) >= Len(r[k + 1])
            /\ Len(r[1]) - Len(r[g]) <= 1
            /\ \A k \in 1..g :
                  Len(r[k]) = IF k <= n % g THEN (n + g - 1) \div g ELSE n \div g
            /\ (n = 10 /\ g = 3) => r = <<<<1, 2, 3, 4>>, <<5, 6, 7>>, <<8, 9, 10>>>>

C9_Witness ==
    /\ ppc = "done" /\ groups_arg = 3 /\ Len(items) = 10
    /\ Len(r) = 3 /\ Len(r[1]) = 4 /\ Len(r[2]) = 3 /\ Len(r[3]) = 3

----------------------------------------------------------------------------
(* Properties of data and dataf, checked under SpecData *)

\* C10: for every key of DJANGOAT_DATA and every argument, falsy ones
\* included, dataf(key, arg) returns what data(context, key, arg) returns: the
\* stored value when it is not callable, else the result of calling it with
\* arg; dataf(key) returns what data(context, key) returns.
C10_DatafSameAsData ==
    (dataf_ret # NoResult /\ data_ret # NoResult /\ key \in DOMAIN DJANGOAT_DATA) =>
        /\ dataf_ret = data_ret
        /\ dataf_ret = IF ~DJANGOAT_DATA[key].callable
                         THEN [kind |-> "value", of |-> DJANGOAT_DATA[key].id, args |-> <<>>]
                       ELSE IF arg = Absent
                         THEN [kind |-> "call", of |-> DJANGOAT_DATA[key].id, args |-> <<>>]
                       ELSE [kind |-> "call", of |-> DJANGOAT_DATA[key].id, args |-> <<arg>>]

----------------------------------------------------------------------------
(* Properties of the widget's text, checked under Spec *)

\* C11: after every pager call the numbers of the widget's "Showing X - Y of
\* T" text agree with the context: X = pager_start (the 1-based start), Y =
\* pager_end and T = pager_total.
C11_ShowingAgreesWithContext ==
    pc = "done" =>
        /\ context.pager.showing[1] = context.pager_start
        /\ context.pager.showing[2] = context.pager_end
        /\ context.pager.showing[3] = context.pager_total

====
